---- MODULE Spec2Model ----
(***************************************************************************)
(* Model of src/src/graph.rs: the directed graph built by add_edge, its    *)
(* degree maps, and the label-propagation community detection.             *)
(*                                                                         *)
(* Three specifications:                                                   *)
(*   Spec           Graph::new() followed by any sequence of add_edge      *)
(*                  calls.                                                 *)
(*   SpecLPA        label_propagation, with its cap of 500 passes, run on  *)
(*                  a graph built by build_from_emails (add_edge folded    *)
(*                  over a sequence of pairs).                             *)
(*   SpecTriangles  label_propagation on two disjoint triangles whose      *)
(*                  edges run in both directions, with the number of       *)
(*                  passes scaled down to MaxPasses.                       *)
(*   SpecTwoRuns    two calls of label_propagation on the same graph, run  *)
(*                  side by side with the same visiting order in every     *)
(*                  pass, each with its own label_counts maps.             *)
(***************************************************************************)
EXTENDS Integers, FiniteSets, Sequences, TLC

(* ------------------------------ bounds --------------------------------- *)

\* Number of add_edge calls explored by Spec.
MaxCalls == 4

\* Number of distinct pairs in the arbitrary graphs SpecLPA starts from.
MaxPairs == 1

\* Number of passes SpecTriangles runs in place of max_iterations.
MaxPasses == 3

\* Number of distinct pairs in the arbitrary graphs SpecTwoRuns starts from.
MaxTwoRunPairs == 2

(* ----------------------------- constants ------------------------------- *)

\* let max_iterations = 500 (graph.rs:117)
max_iterations == 500

(* ------------------------------ nodes ---------------------------------- *)

\* Node identities used for arbitrary call sequences.
Nodes == {"A", "B", "C"}

Pairs == Nodes \X Nodes

NoPair == <<>>

(* ------------------------------ state ---------------------------------- *)

VARIABLES
  adjacency_list,  \* Graph.adjacency_list: node -> set of out-neighbours
  num_vertices,    \* Graph.num_vertices
  inserted,        \* history: the set of (from, to) pairs passed to add_edge
  calls,           \* history: the number of add_edge calls made
  last,            \* history: the pair of the latest add_edge call
  pc,              \* "build" | "loop" | "pass" | "done"
  labels,          \* label_propagation: labels
  iteration,       \* label_propagation: iteration (passes completed)
  nodes,           \* label_propagation: nodes of the shuffled Vec not yet visited
  changed,         \* label_propagation: changed
  visits,          \* history: how often each node was visited in the current pass
  labels2          \* labels of a second call of label_propagation (SpecTwoRuns)

vars == <<adjacency_list, num_vertices, inserted, calls, last,
          pc, labels, iteration, nodes, changed, visits, labels2>>

graphVars == <<adjacency_list, num_vertices, inserted, calls, last>>
lpaVars == <<labels, iteration, nodes, changed, visits>>

(* ------------------------------ Graph ---------------------------------- *)

\* Graph::new()
new == [num_vertices |-> 0, adjacency_list |-> <<>>]

Keys(adj) == DOMAIN adj

\* Variant: num_vertices is incremented on every call, also for a known node.
EnsureNode_AlwaysCount(g, n) ==
  [num_vertices |-> g.num_vertices + 1,
   adjacency_list |-> IF n \in Keys(g.adjacency_list)
                      THEN g.adjacency_list
                      ELSE g.adjacency_list @@ (n :> {})]

\* self.adjacency_list.entry(n).or_insert_with(|| { self.num_vertices += 1; HashSet::new() })
EnsureNode(g, n) ==
  IF n \in Keys(g.adjacency_list)
  THEN g
  ELSE [num_vertices |-> g.num_vertices + 1,
        adjacency_list |-> g.adjacency_list @@ (n :> {})]

\* self.adjacency_list.get_mut(&from_node).unwrap().insert(to_node)
InsertNeighbor(g, from_node, to_node) ==
  [g EXCEPT !.adjacency_list[from_node] = @ \cup {to_node}]

\* Variant: only the sender gets an entry of its own.
AddEdge_SenderOnly(g, from_node, to_node) ==
  InsertNeighbor(EnsureNode(g, from_node), from_node, to_node)

\* Variant: the recipient gets its entry without num_vertices being incremented.
AddEdge_RecipientUncounted(g, from_node, to_node) ==
  LET g1 == EnsureNode(g, from_node)
      g2 == [g1 EXCEPT !.adjacency_list =
               IF to_node \in Keys(@) THEN @ ELSE @ @@ (to_node :> {})]
  IN InsertNeighbor(g2, from_node, to_node)

\* Graph::add_edge as a function of the graph
AddEdge(g, from_node, to_node) ==
  InsertNeighbor(EnsureNode(EnsureNode(g, from_node), to_node), from_node, to_node)

\* Graph::build_from_emails: add_edge folded over the pairs in arrival order
RECURSIVE build_from_emails(_)
build_from_emails(pairs) ==
  IF pairs = <<>>
  THEN new
  ELSE LET p == pairs[Len(pairs)]
       IN AddEdge(build_from_emails(SubSeq(pairs, 1, Len(pairs) - 1)), p[1], p[2])

\* Option<&HashSet<String>>
None == [some |-> FALSE, value |-> {}]
Some(x) == [some |-> TRUE, value |-> x]

\* Variant: the nodes on either end of an edge of the node (undirected view).
get_neighbors_Undirected(adj, node) ==
  IF node \in Keys(adj)
  THEN Some(adj[node] \cup {src \in Keys(adj) : node \in adj[src]})
  ELSE None

\* Graph::get_neighbors: Some(set) for a key, None otherwise
get_neighbors(adj, node) ==
  IF node \in Keys(adj) THEN Some(adj[node]) ELSE None

\* Graph::calculate_out_degrees
calculate_out_degrees(adj) ==
  [node \in Keys(adj) |->
     LET neighbors == get_neighbors(adj, node)
     IN IF neighbors.some THEN Cardinality(neighbors.value) ELSE 0]

\* Variant: an edge from a node to itself is not counted.
calculate_in_degrees_NoSelf(adj) ==
  [node \in Keys(adj) |->
     Cardinality({src \in Keys(adj) : src # node /\ node \in adj[src]})]

\* Graph::calculate_in_degrees: every key starts at 0; each member of each
\* neighbour set that is a key of the map adds one to its count.
calculate_in_degrees(adj) ==
  [node \in Keys(adj) |->
     Cardinality({src \in Keys(adj) : node \in adj[src]})]

Graph == [num_vertices |-> num_vertices, adjacency_list |-> adjacency_list]

\* One call graph.add_edge(from_node, to_node)
add_edge(from_node, to_node) ==
  /\ pc = "build"
  /\ calls < MaxCalls
  /\ LET g == AddEdge(Graph, from_node, to_node)
     IN /\ adjacency_list' = g.adjacency_list
        /\ num_vertices' = g.num_vertices
  /\ inserted' = inserted \cup {<<from_node, to_node>>}
  /\ calls' = calls + 1
  /\ last' = <<from_node, to_node>>
  /\ UNCHANGED <<pc, lpaVars>>

LpaIdle ==
  /\ labels = <<>>
  /\ iteration = 0
  /\ nodes = {}
  /\ changed = FALSE
  /\ visits = <<>>
  /\ labels2 = <<>>

Init ==
  /\ adjacency_list = new.adjacency_list
  /\ num_vertices = new.num_vertices
  /\ inserted = {}
  /\ calls = 0
  /\ last = NoPair
  /\ pc = "build"
  /\ LpaIdle

Next ==
  \E from_node \in Nodes, to_node \in Nodes :
    add_edge(from_node, to_node) /\ UNCHANGED labels2

Spec == Init /\ [][Next]_vars

(* ------------------------- label_propagation --------------------------- *)

\* Variant: only the nodes that have out-neighbours are given a label.
InitialLabels_SendersOnly(adj) ==
  [node \in {k \in Keys(adj) : adj[k] # {}} |-> node]

\* labels: each node is its own label (graph.rs:109-112)
InitialLabels(adj) == [node \in Keys(adj) |-> node]

\* Variant: the inclusive range 0..=max_iterations.
ContinueLoop_Inclusive(iter, cap) == iter <= cap

\* for iteration in 0..max_iterations (graph.rs:118)
ContinueLoop(iter, cap) == iter < cap

\* Variant: the neighbour itself is tallied in place of the label it holds now,
\* which is the label it had before the first pass.
LabelCounts_InitialLabels(lab, neighbors) ==
  LET known == {neighbor \in neighbors : neighbor \in DOMAIN lab}
  IN [label \in known |-> 1]

\* label_counts: the frequency of each label among the neighbours, read from
\* the labels map as it stands (graph.rs:138-143)
LabelCounts(lab, neighbors) ==
  LET known == {neighbor \in neighbors : neighbor \in DOMAIN lab}
  IN [label \in {lab[neighbor] : neighbor \in known} |->
        Cardinality({neighbor \in known : lab[neighbor] = label})]

\* label_counts.iter().max_by_key(|&(_, count)| count): the last maximal entry
\* in the iteration order of a HashMap, which is unspecified; every label of
\* maximal count can be the one returned (graph.rs:146)
MaxLabels(label_counts) ==
  {label \in DOMAIN label_counts :
     \A other \in DOMAIN label_counts : label_counts[other] <= label_counts[label]}

\* Variant: the comparison inverted.
ShouldUpdate_Inverted(current_label, max_label) == current_label = max_label

\* if current_label != max_label (graph.rs:148)
ShouldUpdate(current_label, max_label) == current_label # max_label

\* let mut labels = ...; let mut rng = thread_rng(); (graph.rs:109-117)
label_propagation_begin ==
  /\ pc = "build"
  /\ pc' = "loop"
  /\ labels' = InitialLabels(adjacency_list)
  /\ iteration' = 0
  /\ nodes' = {}
  /\ changed' = FALSE
  /\ visits' = [node \in Keys(adjacency_list) |-> 0]
  /\ UNCHANGED graphVars

\* Head of one pass: changed = false; nodes = keys, shuffled (graph.rs:118-123).
\* The shuffled order is any order: each visit takes any node not yet visited.
pass_begin(cap) ==
  /\ pc = "loop"
  /\ ContinueLoop(iteration, cap)
  /\ pc' = "pass"
  /\ changed' = FALSE
  /\ nodes' = Keys(adjacency_list)
  /\ visits' = [node \in Keys(adjacency_list) |-> 0]
  /\ UNCHANGED <<graphVars, labels, iteration>>

\* Body of `for node in nodes` for one node (graph.rs:126-153)
visit(node) ==
  /\ pc = "pass"
  /\ node \in nodes
  /\ nodes' = nodes \ {node}
  /\ visits' = [visits EXCEPT ![node] = @ + 1]
  /\ LET neighbors == get_neighbors(adjacency_list, node)
     IN IF ~neighbors.some \/ neighbors.value = {}
        THEN UNCHANGED <<labels, changed>>
        ELSE LET label_counts == LabelCounts(labels, neighbors.value)
             IN IF MaxLabels(label_counts) = {}
                THEN UNCHANGED <<labels, changed>>
                ELSE \E max_label \in MaxLabels(label_counts) :
                       IF ShouldUpdate(labels[node], max_label)
                       THEN /\ labels' = [labels EXCEPT ![node] = max_label]
                            /\ changed' = TRUE
                       ELSE UNCHANGED <<labels, changed>>
  /\ UNCHANGED <<graphVars, pc, iteration>>

\* End of the pass body: the for loop advances to the next iteration. `changed`
\* is not read (graph.rs:119, 150, 154).
pass_end ==
  /\ pc = "pass"
  /\ nodes = {}
  /\ pc' = "loop"
  /\ iteration' = iteration + 1
  /\ UNCHANGED <<graphVars, labels, nodes, changed, visits>>

\* The range is exhausted: labels is returned (graph.rs:155)
label_propagation_return(cap) ==
  /\ pc = "loop"
  /\ ~ContinueLoop(iteration, cap)
  /\ pc' = "done"
  /\ UNCHANGED <<graphVars, lpaVars>>

(* ----------------------- graphs label_propagation runs on -------------- *)

\* test_label_propagation_small_graph (main.rs:345-352)
SmallGraphPairs ==
  << <<"A", "B">>, <<"A", "C">>, <<"B", "C">>,
     <<"D", "E">>, <<"D", "F">>, <<"E", "F">> >>

\* Two disjoint triangles with every edge present in both directions
MutualTrianglePairs ==
  << <<"A", "B">>, <<"B", "A">>, <<"A", "C">>, <<"C", "A">>, <<"B", "C">>, <<"C", "B">>,
     <<"D", "E">>, <<"E", "D">>, <<"D", "F">>, <<"F", "D">>, <<"E", "F">>, <<"F", "E">> >>

\* test_self_loops_and_multiple_edges (main.rs:291-308)
SelfLoopPairs ==
  << <<"A", "B">>, <<"A", "B">>, <<"B", "A">>, <<"C", "C">> >>

\* The pairs of a set in one arrival order
RECURSIVE SeqOf(_)
SeqOf(S) ==
  IF S = {}
  THEN <<>>
  ELSE LET p == CHOOSE q \in S : TRUE
       IN <<p>> \o SeqOf(S \ {p})

\* test_out_degree_calculation, test_in_degree_calculation (main.rs:168-192),
\* with alice .. frank written A .. F
DegreeTestPairs ==
  << <<"A", "B">>, <<"A", "C">>, <<"B", "D">>, <<"C", "D">>,
     <<"C", "E">>, <<"C", "F">>, <<"A", "D">> >>

\* The test graphs, and every set of at most MaxPairs pairs over Nodes
PairSeqs ==
  {SmallGraphPairs, SelfLoopPairs, DegreeTestPairs}
    \cup {SeqOf(S) : S \in {T \in SUBSET Pairs : Cardinality(T) <= MaxPairs}}

Range(s) == {s[i] : i \in DOMAIN s}

\* The graph is the one build_from_emails(pairs) returns
Built(pairs) ==
  LET g == build_from_emails(pairs)
  IN /\ adjacency_list = g.adjacency_list
     /\ num_vertices = g.num_vertices
     /\ inserted = Range(pairs)
     /\ calls = Len(pairs)
     /\ last = IF pairs = <<>> THEN NoPair ELSE pairs[Len(pairs)]
     /\ pc = "build"
     /\ LpaIdle

\* label_propagation is called on a graph built by build_from_emails
InitLPA == \E pairs \in PairSeqs : Built(pairs)

NextLPA ==
  \/ label_propagation_begin /\ UNCHANGED labels2
  \/ pass_begin(max_iterations) /\ UNCHANGED labels2
  \/ \E node \in nodes : visit(node) /\ UNCHANGED labels2
  \/ pass_end /\ UNCHANGED labels2
  \/ label_propagation_return(max_iterations) /\ UNCHANGED labels2

SpecLPA == InitLPA /\ [][NextLPA]_vars

InitTriangles == Built(MutualTrianglePairs)

\* The same steps, with MaxPasses passes in place of max_iterations
NextTriangles ==
  \/ label_propagation_begin /\ UNCHANGED labels2
  \/ pass_begin(MaxPasses) /\ UNCHANGED labels2
  \/ \E node \in nodes : visit(node) /\ UNCHANGED labels2
  \/ pass_end /\ UNCHANGED labels2
  \/ label_propagation_return(MaxPasses) /\ UNCHANGED labels2

SpecTriangles == InitTriangles /\ [][NextTriangles]_vars

(* ------------------- two calls with the same visiting order ------------ *)

\* The labels maps the body of `for node in nodes` can leave for one node,
\* given the labels map lab it starts from (graph.rs:126-153)
VisitResults(lab, node) ==
  LET neighbors == get_neighbors(adjacency_list, node)
  IN IF ~neighbors.some \/ neighbors.value = {}
     THEN {lab}
     ELSE LET label_counts == LabelCounts(lab, neighbors.value)
          IN IF MaxLabels(label_counts) = {}
             THEN {lab}
             ELSE {IF ShouldUpdate(lab[node], max_label)
                   THEN [lab EXCEPT ![node] = max_label]
                   ELSE lab : max_label \in MaxLabels(label_counts)}

\* Every set of at most MaxTwoRunPairs pairs over Nodes
InitTwoRuns ==
  \E S \in {T \in SUBSET Pairs : Cardinality(T) <= MaxTwoRunPairs} : Built(SeqOf(S))

\* Both calls take the same step; in a visit both visit the same node, and each
\* builds its own label_counts HashMap, whose iteration order is its own.
NextTwoRuns ==
  \/ label_propagation_begin /\ labels2' = InitialLabels(adjacency_list)
  \/ pass_begin(max_iterations) /\ UNCHANGED labels2
  \/ \E node \in nodes : visit(node) /\ labels2' \in VisitResults(labels2, node)
  \/ pass_end /\ UNCHANGED labels2
  \/ label_propagation_return(max_iterations) /\ UNCHANGED labels2

SpecTwoRuns == InitTwoRuns /\ [][NextTwoRuns]_vars

(* ============================== claims ================================= *)

NodesOf(pairs) == {p[1] : p \in pairs} \cup {p[2] : p \in pairs}

LabelSet(lab) == {lab[n] : n \in DOMAIN lab}

Community(lab, label) == {n \in DOMAIN lab : lab[n] = label}

TwoCommunitiesOfThree(lab) ==
  /\ Cardinality(LabelSet(lab)) = 2
  /\ \A label \in LabelSet(lab) : Cardinality(Community(lab, label)) = 3

Sinks == {n \in Keys(adjacency_list) : adjacency_list[n] = {}}

InLabelPropagation == pc \in {"loop", "pass", "done"}

IsSmallGraph ==
  adjacency_list = build_from_emails(SmallGraphPairs).adjacency_list

IsMutualTriangles ==
  adjacency_list = build_from_emails(MutualTrianglePairs).adjacency_list

\* C1: on the graph A->B, A->C, B->C, D->E, D->F, E->F the returned labels
\* form exactly 2 distinct labels, each held by exactly 3 nodes, whatever the
\* visiting orders and the resolution of ties.
C1_SmallGraphTwoCommunities ==
  (pc = "done" /\ IsSmallGraph) => TwoCommunitiesOfThree(labels)

C1_Witness ==
  /\ pc = "done"
  /\ IsSmallGraph
  /\ Community(labels, "C") = {"A", "B", "C"}
  /\ Community(labels, "F") = {"D", "E", "F"}

\* C2: the out-degree of n is the number of distinct m with (n, m) inserted and
\* the in-degree of n the number of distinct m with (m, n) inserted; repeated
\* pairs count once and a self-loop counts once in each map.
C2_DegreesCountInsertedPairs ==
  LET ns == NodesOf(inserted)
      out_degrees == calculate_out_degrees(adjacency_list)
      in_degrees == calculate_in_degrees(adjacency_list)
  IN /\ DOMAIN out_degrees = ns
     /\ DOMAIN in_degrees = ns
     /\ \A n \in ns :
          /\ out_degrees[n] = Cardinality({m \in ns : <<n, m>> \in inserted})
          /\ in_degrees[n] = Cardinality({m \in ns : <<m, n>> \in inserted})

C2_Witness ==
  /\ calls > Cardinality(inserted)
  /\ Cardinality(inserted) >= 2
  /\ \E x \in Keys(adjacency_list) :
       /\ <<x, x>> \in inserted
       /\ calculate_out_degrees(adjacency_list)[x] = 1
       /\ calculate_in_degrees(adjacency_list)[x] = 1

\* C3: after a full pass over all nodes in which no label changed, no further
\* pass is executed, even when the iteration cap has not been reached (stated
\* for a graph that has nodes, each visited in the pass that just ended).
C3_NoPassAfterQuietPass ==
  [][(/\ pc = "loop"
      /\ iteration > 0
      /\ iteration < max_iterations
      /\ Keys(adjacency_list) # {}
      /\ \A n \in Keys(adjacency_list) : visits[n] = 1
      /\ ~changed) => pc' # "pass"]_vars

\* C4: label_propagation executes at most max_iterations passes and then
\* returns; it can always take its next step until it has returned, and each
\* pass visits every node exactly once.
C4_AtMostMaxIterationsPasses ==
  /\ iteration <= max_iterations
  /\ pc \in {"loop", "pass"} => ENABLED NextLPA
  /\ pc = "pass" =>
       /\ iteration < max_iterations
       /\ \A n \in Keys(adjacency_list) :
            visits[n] = IF n \in nodes THEN 0 ELSE 1
  /\ pc \in {"loop", "done"} /\ iteration > 0 =>
       \A n \in Keys(adjacency_list) : visits[n] = 1

C4_Witness ==
  /\ pc = "done"
  /\ iteration = max_iterations
  /\ changed
  /\ Keys(adjacency_list) # {}

\* C5: every node passed to add_edge as from or to, and every member of a
\* neighbour set, is a key of adjacency_list.
C5_EndpointsAreKeys ==
  /\ NodesOf(inserted) \subseteq Keys(adjacency_list)
  /\ \A k \in Keys(adjacency_list) : adjacency_list[k] \subseteq Keys(adjacency_list)

C5_Witness ==
  /\ calls >= 2
  /\ \E n \in Keys(adjacency_list) :
       /\ adjacency_list[n] = {}
       /\ \E k \in Keys(adjacency_list) : n \in adjacency_list[k]

\* C6: num_vertices is the number of keys of adjacency_list, and both degree
\* maps have exactly num_vertices entries.
C6_VertexCountIsKeyCount ==
  /\ num_vertices = Cardinality(Keys(adjacency_list))
  /\ Cardinality(DOMAIN calculate_out_degrees(adjacency_list)) = num_vertices
  /\ Cardinality(DOMAIN calculate_in_degrees(adjacency_list)) = num_vertices

C6_Witness ==
  /\ num_vertices = 3
  /\ calls = 4
  /\ Cardinality(inserted) < calls

\* C7: a call of add_edge with the same pair as the call before it leaves
\* adjacency_list, num_vertices and both degree maps as they were.
C7_AddEdgeIdempotent ==
  [][(calls' = calls + 1 /\ last' = last) =>
       /\ adjacency_list' = adjacency_list
       /\ num_vertices' = num_vertices
       /\ calculate_out_degrees(adjacency_list') = calculate_out_degrees(adjacency_list)
       /\ calculate_in_degrees(adjacency_list') = calculate_in_degrees(adjacency_list)]_vars

\* Two calls, both with the same pair of distinct nodes
C7_Witness ==
  /\ calls = 2
  /\ inserted = {last}
  /\ last[1] # last[2]
  /\ num_vertices = 2
  /\ adjacency_list[last[1]] = {last[2]}

\* C8: during label_propagation and in its result, a node whose neighbour set
\* is empty has its own identity as its label.
C8_SinkKeepsInitialLabel ==
  InLabelPropagation =>
    \A n \in Sinks : n \in DOMAIN labels /\ labels[n] = n

C8_Witness ==
  /\ pc = "pass"
  /\ iteration = max_iterations - 1
  /\ \E n \in Sinks :
       /\ n \notin nodes
       /\ labels[n] = n
       /\ \E k \in Keys(adjacency_list) : n \in adjacency_list[k]

\* C9 as stated: the returned mapping has an entry for every node, and every
\* node with no out-neighbours is a singleton community: its label is its own
\* identity and no other node ends with that label.
C9_SinksAreSingletons ==
  pc = "done" =>
    /\ DOMAIN labels = Keys(adjacency_list)
    /\ \A n \in Sinks : Community(labels, n) = {n}

\* C9 as amended: the returned mapping has an entry for every node, and every
\* node with no out-neighbours ends with its own identity as its label; other
\* nodes may end with that label too.
C9_SinksLabelledWithThemselves ==
  pc = "done" =>
    /\ DOMAIN labels = Keys(adjacency_list)
    /\ \A n \in Sinks : n \in Community(labels, n)

C9_Witness ==
  /\ pc = "done"
  /\ \E n \in Sinks : {n} \subseteq Community(labels, n) /\ Community(labels, n) # {n}

\* C10: on two disjoint triangles with every edge in both directions the
\* returned labels form exactly 2 distinct labels, each covering exactly 3
\* nodes, whatever the visiting orders and the resolution of ties.
C10_MutualTrianglesTwoCommunities ==
  (pc = "done" /\ IsMutualTriangles) => TwoCommunitiesOfThree(labels)

IsSelfLoopGraph ==
  adjacency_list = build_from_emails(SelfLoopPairs).adjacency_list

IsDegreeTestGraph ==
  adjacency_list = build_from_emails(DegreeTestPairs).adjacency_list

\* The number of out-neighbours of n that hold the label in lab
HeldBy(lab, n, label) ==
  Cardinality({m \in adjacency_list[n] : lab[m] = label})

\* C12: a visit of a node n with a non-empty neighbour set leaves n with a
\* label held by one of its out-neighbours whose count among the labels the
\* out-neighbours hold when n is visited (earlier updates of the same pass
\* included) is maximal; labels is written only for n, and only when n's
\* label differs from that winner.
C12_VisitTakesMaxLabelInPlace ==
  [][\A n \in Keys(adjacency_list) :
       (pc = "pass" /\ n \in nodes /\ nodes' = nodes \ {n}
          /\ adjacency_list[n] # {}) =>
         /\ \E m \in adjacency_list[n] : labels'[n] = labels[m]
         /\ \A m \in adjacency_list[n] :
              HeldBy(labels, n, labels[m]) <= HeldBy(labels, n, labels'[n])
         /\ \A k \in Keys(adjacency_list) \ {n} : labels'[k] = labels[k]
         /\ changed' = (changed \/ labels'[n] # labels[n])]_vars

\* In the first pass over A <-> B both nodes have been visited and hold the
\* same label: the second of them read the label the first had just written.
C12_Witness ==
  /\ IsSelfLoopGraph
  /\ pc = "pass"
  /\ iteration = 0
  /\ {"A", "B"} \cap nodes = {}
  /\ labels["A"] = labels["B"]
  /\ changed

\* The nodes reachable from n along out-edges by a path of length zero or more
RECURSIVE ReachableFrom(_, _)
ReachableFrom(seen, frontier) ==
  IF frontier \subseteq seen
  THEN seen
  ELSE ReachableFrom(seen \cup frontier,
                     UNION {adjacency_list[m] : m \in frontier \ seen})

Reachable(n) == ReachableFrom({}, {n})

\* C13: during label_propagation and in its result the label of each node n
\* is the identity of a node of the graph reachable from n along out-edges by
\* a path of length zero or more.
C13_LabelIsReachableNode ==
  InLabelPropagation =>
    \A n \in Keys(adjacency_list) :
      /\ n \in DOMAIN labels
      /\ labels[n] \in Keys(adjacency_list)
      /\ labels[n] \in Reachable(n)

\* A node holds the label of a node it reaches only through another node.
C13_Witness ==
  /\ IsDegreeTestGraph
  /\ InLabelPropagation
  /\ \E n \in Keys(adjacency_list) :
       /\ labels[n] \notin adjacency_list[n] \cup {n}
       /\ labels[n] \in Reachable(n)

\* C11: ties for the highest tally are resolved by one deterministic rule, not
\* by hash-map iteration order: two runs on the same graph with the same
\* visiting order in every pass return the same label assignment.
C11_SameOrderSameResult ==
  pc = "done" => labels2 = labels

====
